---- MODULE Spec2Model ----
(***************************************************************************)
(* Model of the reconnecting WebSocket client of effect-websocket          *)
(* (packages/core/src/WebSocketClient.ts): WebSocketClientImpl, its        *)
(* transport callbacks, the reconnection timer and makeWebSocketClient     *)
(* with its scope finalizer.  The transport (the platform WebSocket) is    *)
(* the environment: it raises open / error / message / close on a handle.  *)
(*                                                                         *)
(* Every handler of the source runs to completion on one thread, so each   *)
(* handler is one action.  The handlers are written as operators on a      *)
(* record of the client's mutable state (Pack), because they call each     *)
(* other (onclose -> attemptReconnection, catch -> attemptReconnection).   *)
(*                                                                         *)
(* Time is read at timer deadlines only: Advance moves the clock to the    *)
(* next deadline, a timer fires at its deadline, transport notifications   *)
(* and caller operations happen at the current instant.                    *)
(***************************************************************************)
EXTENDS Integers, Sequences, FiniteSets, TLC

(* ---- bounds of the model ---- *)
MaxMessages == 2
MaxDials == 3
MaxAttemptsBound == 2
MaxRaised == 5
MaxSends == 1
MaxAttemptNumber == 4

(* ---- program constants ---- *)
InitialConnectTimeout == 10000
ReconnectConnectTimeout == 10000

Payloads == {"ping", "pong"}
CloseCodes == {1000, 1006}

ConnectionState == {"Connecting", "Open", "Closing", "Closed"}

VARIABLES
    reconnectionOptions,      \* the merged ReconnectionOptions of the client
    pc,                       \* makeWebSocketClient: "start", "dialing", "constructed", "failed"
    scopeClosed,              \* the scope that owns the client has exited
    closeCalled,              \* close() has been called on the client
    handles,                  \* the transport handles created so far, in creation order
    ws,                       \* this.ws: index of the client's current handle (0: none)
    reconnectAttemptsCount,
    isCurrentlyReconnecting,
    manualClose,
    reconnectTimeoutId,       \* id of the last reconnection timer (0: undefined)
    timers,                   \* the timers that are pending in the runtime
    timerSeq,                 \* number of timers created so far (timer ids)
    now,                      \* the clock, in milliseconds
    messageQueue,
    eventQueue,
    msgSeen,                  \* what the consumer of client.messages has taken
    evtSeen,                  \* what the consumer of client.events has taken
    offers,                   \* number of Queue.unsafeOffer calls so far
    raised,                   \* number of transport notifications raised so far
    dials,                    \* number of performReconnection runs so far
    failedDials,              \* reconnection dials that failed since the last open
    transportLog,             \* the transport notifications raised so far, in order
    sendLog,                  \* the send() calls so far and what became of each payload
    closeResult,              \* outcome of the last close() call ("none": no call yet)
    closeSucceeded,           \* some close() call has completed without a fault
    delayOut,                 \* the last delay computed by calculateReconnectionDelay
    shutdownQueues,           \* the client's queues that have been shut down (their streams have ended)
    platform,                 \* the server implementation: "node" or "bun"
    serverPc,                 \* makeWebSocketServer: "start", "serving", "stopped"
    conns,                    \* the server-side transports accepted so far, in accept order
    connectionMap,            \* bun: the ids kept per transport, as pairs << transport, id >>
    connectionQueue,
    serverMessageQueue,       \* the server's messageQueue
    connSeen,                 \* what the consumer of server.connections has taken
    serverMsgSeen,            \* what the consumer of server.messages has taken
    serverOffers,             \* number of Queue.unsafeOffer calls of the server so far
    arrivals,                 \* the messages the server-side transports have delivered, in order
    connSendLog               \* the connection.send calls so far

clientVars == << reconnectionOptions, pc, scopeClosed, closeCalled, handles, ws,
           reconnectAttemptsCount, isCurrentlyReconnecting, manualClose,
           reconnectTimeoutId, timers, timerSeq, now, messageQueue, eventQueue,
           msgSeen, evtSeen, offers, raised, dials, failedDials,
           transportLog, sendLog, closeResult, closeSucceeded, delayOut,
           shutdownQueues >>

serverVars == << platform, serverPc, conns, connectionMap, connectionQueue,
                serverMessageQueue, connSeen, serverMsgSeen, serverOffers,
                arrivals, connSendLog >>

vars == << clientVars, serverVars >>

(* ---- the policy ---- *)
defaultReconnectionOptions ==
    [enabled |-> FALSE, initialDelay |-> 1000, maxDelay |-> 30000,
     maxAttempts |-> 10, backoffMultiplier |-> 2, jitter |-> TRUE]

(* the policy of the exhaustion scenario: the delay is clamped from the start *)
ScenarioPolicy ==
    [enabled |-> TRUE, initialDelay |-> 100, maxDelay |-> 100,
     maxAttempts |-> 3, backoffMultiplier |-> 2, jitter |-> FALSE]

Policies ==
    {defaultReconnectionOptions, ScenarioPolicy} \cup
    { [enabled |-> TRUE, initialDelay |-> 100, maxDelay |-> 150,
       maxAttempts |-> n, backoffMultiplier |-> 2, jitter |-> FALSE] :
         n \in 0..MaxAttemptsBound }

(* Math.random() is one of k / RandomDenominator, k in 0..RandomDenominator-1 *)
RandomDenominator == 4
RandomSamples(opts) == IF opts.jitter THEN 0..(RandomDenominator - 1) ELSE {0}

RECURSIVE Pow(_, _)
Pow(b, e) == IF e = 0 THEN 1 ELSE b * Pow(b, e - 1)

Min(a, b) == IF a <= b THEN a ELSE b
Max(a, b) == IF a >= b THEN a ELSE b

(* calculateReconnectionDelay: attempts is reconnectAttemptsCount after its
   increment, rnd the numerator of Math.random() *)
(* a backoff that starts one multiplication too far *)
calculateReconnectionDelayOffByOne(attempts, opts, rnd) ==
    LET base == Min(opts.initialDelay * Pow(opts.backoffMultiplier, attempts), opts.maxDelay)
        jittered == IF opts.jitter
            THEN base + ((2 * rnd - RandomDenominator) * base) \div (4 * RandomDenominator)
            ELSE base
    IN Max(0, jittered)

(* a jitter of half the delay instead of a quarter *)
calculateReconnectionDelayWideJitter(attempts, opts, rnd) ==
    LET attempt == attempts - 1
        base == Min(opts.initialDelay * Pow(opts.backoffMultiplier, attempt), opts.maxDelay)
        jittered == IF opts.jitter
            THEN base + ((2 * rnd - RandomDenominator) * base) \div (2 * RandomDenominator)
            ELSE base
    IN Max(0, jittered)

calculateReconnectionDelay(attempts, opts, rnd) ==
    LET attempt == attempts - 1
        base == Min(opts.initialDelay * Pow(opts.backoffMultiplier, attempt), opts.maxDelay)
        jittered ==
            IF opts.jitter
            THEN base + ((2 * rnd - RandomDenominator) * base) \div (4 * RandomDenominator)
            ELSE base
    IN Max(0, jittered)

(* ---- queue entries ---- *)
(* n: position of the offer among all offers; r: the transport notification
   that caused it (0: a timer did); h: the handle; t: the time of the offer *)
Event(s, tag, data, code, attempt, h) ==
    [tag |-> tag, data |-> data, code |-> code, attempt |-> attempt,
     n |-> s.offers + 1, r |-> s.cause, h |-> h, t |-> s.now]

(* an event queue that holds two entries and drops what does not fit *)
OfferEventDropping(s, tag, data, code, attempt, h) ==
    IF Len(s.eventQueue) >= 2
    THEN [s EXCEPT !.offers = @ + 1]
    ELSE [s EXCEPT !.eventQueue = Append(@, Event(s, tag, data, code, attempt, h)),
                   !.offers = @ + 1]

OfferEvent(s, tag, data, code, attempt, h) ==
    [s EXCEPT !.eventQueue = Append(@, Event(s, tag, data, code, attempt, h)),
              !.offers = @ + 1]

OfferMessage(s, data, h) ==
    [s EXCEPT !.messageQueue = Append(@, [data |-> data, n |-> s.offers + 1,
                                          r |-> s.cause, h |-> h]),
              !.offers = @ + 1]

(* ---- timers ---- *)
setTimeout(s, kind, delay, h) ==
    [s EXCEPT !.timers = @ \cup {[id |-> s.timerSeq + 1, kind |-> kind,
                                  due |-> s.now + delay, h |-> h]},
              !.timerSeq = @ + 1]

clearTimeout(s, id) ==
    [s EXCEPT !.timers = {tm \in @ : tm.id # id}]

ConnectTimerOf(s, h) == {tm \in s.timers : tm.kind = "connect" /\ tm.h = h}

clearConnectTimeout(s, h) ==
    [s EXCEPT !.timers = @ \ ConnectTimerOf(s, h)]

(* a transport whose close() request is ignored *)
wsCloseIgnored(s, h) == s

(* ---- the transport's close(): a request, the closed notification follows ---- *)
wsClose(s, h) ==
    IF h # 0 /\ s.handles[h].state \in {"Connecting", "Open"}
    THEN [s EXCEPT !.handles[h].state = "Closing"]
    ELSE s

(* ---- WebSocketClientImpl ---- *)
(* attemptReconnection that does not count the attempt it schedules *)
attemptReconnectionNoCount(s, rnd) ==
    IF s.isCurrentlyReconnecting \/ s.manualClose THEN s
    ELSE IF s.opts.maxAttempts > 0 /\ s.reconnectAttemptsCount >= s.opts.maxAttempts
    THEN OfferEvent(s, "reconnect_failed", "", 0, s.reconnectAttemptsCount, 0)
    ELSE LET s1 == [s EXCEPT !.isCurrentlyReconnecting = TRUE]
             delay == calculateReconnectionDelay(s1.reconnectAttemptsCount + 1, s1.opts, rnd)
             s2 == setTimeout(s1, "reconnect", delay, 0)
             s3 == [s2 EXCEPT !.reconnectTimeoutId = s2.timerSeq]
         IN OfferEvent(s3, "reconnecting", "", 0, s3.reconnectAttemptsCount + 1, 0)

(* attemptReconnection without the test of isCurrentlyReconnecting *)
attemptReconnectionNoGuard(s, rnd) ==
    IF s.manualClose THEN s
    ELSE IF s.opts.maxAttempts > 0 /\ s.reconnectAttemptsCount >= s.opts.maxAttempts
    THEN OfferEvent(s, "reconnect_failed", "", 0, s.reconnectAttemptsCount, 0)
    ELSE LET s1 == [s EXCEPT !.isCurrentlyReconnecting = TRUE,
                             !.reconnectAttemptsCount = @ + 1]
             delay == calculateReconnectionDelay(s1.reconnectAttemptsCount, s1.opts, rnd)
             s2 == setTimeout(s1, "reconnect", delay, 0)
             s3 == [s2 EXCEPT !.reconnectTimeoutId = s2.timerSeq]
         IN OfferEvent(s3, "reconnecting", "", 0, s3.reconnectAttemptsCount, 0)

(* attemptReconnection that takes maxAttempts = 0 for a limit of zero *)
attemptReconnectionZeroIsLimit(s, rnd) ==
    IF s.isCurrentlyReconnecting \/ s.manualClose THEN s
    ELSE IF s.reconnectAttemptsCount >= s.opts.maxAttempts
    THEN OfferEvent(s, "reconnect_failed", "", 0, s.reconnectAttemptsCount, 0)
    ELSE LET s1 == [s EXCEPT !.isCurrentlyReconnecting = TRUE,
                             !.reconnectAttemptsCount = @ + 1]
             delay == calculateReconnectionDelay(s1.reconnectAttemptsCount, s1.opts, rnd)
             s2 == setTimeout(s1, "reconnect", delay, 0)
             s3 == [s2 EXCEPT !.reconnectTimeoutId = s2.timerSeq]
         IN OfferEvent(s3, "reconnecting", "", 0, s3.reconnectAttemptsCount, 0)

(* attemptReconnection that gives up one attempt late *)
attemptReconnectionOneMore(s, rnd) ==
    IF s.isCurrentlyReconnecting \/ s.manualClose THEN s
    ELSE IF s.opts.maxAttempts > 0 /\ s.reconnectAttemptsCount > s.opts.maxAttempts
    THEN OfferEvent(s, "reconnect_failed", "", 0, s.reconnectAttemptsCount, 0)
    ELSE LET s1 == [s EXCEPT !.isCurrentlyReconnecting = TRUE,
                             !.reconnectAttemptsCount = @ + 1]
             delay == calculateReconnectionDelay(s1.reconnectAttemptsCount, s1.opts, rnd)
             s2 == setTimeout(s1, "reconnect", delay, 0)
             s3 == [s2 EXCEPT !.reconnectTimeoutId = s2.timerSeq]
         IN OfferEvent(s3, "reconnecting", "", 0, s3.reconnectAttemptsCount, 0)

attemptReconnection(s, rnd) ==
    IF s.isCurrentlyReconnecting \/ s.manualClose THEN s
    ELSE IF s.opts.maxAttempts > 0 /\ s.reconnectAttemptsCount >= s.opts.maxAttempts
    THEN OfferEvent(s, "reconnect_failed", "", 0, s.reconnectAttemptsCount, 0)
    ELSE LET s1 == [s EXCEPT !.isCurrentlyReconnecting = TRUE,
                             !.reconnectAttemptsCount = @ + 1]
             delay == calculateReconnectionDelay(s1.reconnectAttemptsCount, s1.opts, rnd)
             s2 == setTimeout(s1, "reconnect", delay, 0)
             s3 == [s2 EXCEPT !.reconnectTimeoutId = s2.timerSeq]
         IN OfferEvent(s3, "reconnecting", "", 0, s3.reconnectAttemptsCount, 0)

(* setupEventListeners: the callbacks of the initial handle *)
(* an onopen of the initial handle that announces the open as a message *)
setupOnOpenUnannounced(s, h) ==
    LET s1 == [s EXCEPT !.isCurrentlyReconnecting = FALSE,
                        !.reconnectAttemptsCount = 0,
                        !.failedDials = 0]
    IN OfferEvent(s1, "message", "", 0, 0, h)

(* an onopen of the initial handle that goes on to schedule a reconnection *)
setupOnOpenReconnects(s, h) ==
    LET s1 == [s EXCEPT !.isCurrentlyReconnecting = FALSE,
                        !.reconnectAttemptsCount = 0,
                        !.failedDials = 0]
    IN IF s1.opts.enabled THEN attemptReconnection(OfferEvent(s1, "open", "", 0, 0, h), 0)
                          ELSE OfferEvent(s1, "open", "", 0, 0, h)

setupOnOpen(s, h) ==
    LET s1 == [s EXCEPT !.isCurrentlyReconnecting = FALSE,
                        !.reconnectAttemptsCount = 0,
                        !.failedDials = 0]
    IN OfferEvent(s1, "open", "", 0, 0, h)

(* an onclose that reconnects whether or not reconnection is enabled *)
setupOnCloseIgnoresEnabled(s, h, code, rnd) ==
    LET s1 == OfferEvent(s, "close", "", code, 0, h)
    IN IF ~s1.manualClose THEN attemptReconnection(s1, rnd) ELSE s1

(* an onclose that considers the reconnection before it announces the close *)
setupOnCloseReconnectsFirst(s, h, code, rnd) ==
    LET s1 == IF ~s.manualClose /\ s.opts.enabled THEN attemptReconnection(s, rnd) ELSE s
    IN OfferEvent(s1, "close", "", code, 0, h)

setupOnClose(s, h, code, rnd) ==
    LET s1 == OfferEvent(s, "close", "", code, 0, h)
    IN IF ~s1.manualClose /\ s1.opts.enabled THEN attemptReconnection(s1, rnd) ELSE s1

(* an onerror of the initial handle that starts the reconnection itself *)
setupOnErrorReconnects(s, h) ==
    attemptReconnection(OfferEvent(s, "error", "", 0, 0, h), 0)

setupOnError(s, h) == OfferEvent(s, "error", "", 0, 0, h)

setupOnMessage(s, h, data) ==
    OfferEvent(OfferMessage(s, data, h), "message", data, 0, 0, h)

(* performReconnection: the callbacks of a handle created by reconnection *)
(* onopen of a reconnected handle that leaves the reconnection status as it is *)
reconnectOnOpenNoReset(s, h) ==
    OfferEvent([clearConnectTimeout(s, h) EXCEPT !.failedDials = 0], "open", "", 0, 0, h)

reconnectOnOpen(s, h) ==
    LET s1 == clearConnectTimeout(s, h)
        s2 == [s1 EXCEPT !.isCurrentlyReconnecting = FALSE,
                         !.reconnectAttemptsCount = 0,
                         !.failedDials = 0]
    IN OfferEvent(s2, "open", "", 0, 0, h)

reconnectOnClose(s, h, code, rnd) ==
    LET s1 == clearConnectTimeout(s, h)
        s2 == OfferEvent(s1, "close", "", code, 0, h)
        s3 == IF s.handles[h].opened THEN s2 ELSE [s2 EXCEPT !.failedDials = @ + 1]
    IN IF ~s3.manualClose /\ s3.opts.enabled THEN attemptReconnection(s3, rnd) ELSE s3

reconnectOnError(s, h) == clearConnectTimeout(s, h)

(* onmessage of a reconnected handle that emits the event before the message *)
reconnectOnMessageEventFirst(s, h, data) ==
    OfferMessage(OfferEvent(s, "message", data, 0, 0, h), data, h)

reconnectOnMessage(s, h, data) ==
    OfferEvent(OfferMessage(s, data, h), "message", data, 0, 0, h)

(* performReconnection whose catch leaves isCurrentlyReconnecting set *)
performReconnectionNoReentry(s, fault, rnd) ==
    IF fault
    THEN LET s1 == [s EXCEPT !.failedDials = @ + 1]
         IN IF ~s1.manualClose /\ s1.opts.enabled
            THEN attemptReconnection(s1, rnd) ELSE s1
    ELSE LET h == Len(s.handles) + 1
             s1 == [s EXCEPT !.handles = Append(@, [state |-> "Connecting",
                                                    wiring |-> "reconnect",
                                                    opened |-> FALSE]),
                             !.ws = h]
         IN setTimeout(s1, "connect", ReconnectConnectTimeout, h)

(* performReconnection: the timer's callback.  fault: new WebSocket throws *)
performReconnection(s, fault, rnd) ==
    IF fault
    THEN LET s1 == [s EXCEPT !.isCurrentlyReconnecting = FALSE,
                             !.failedDials = @ + 1]
         IN IF ~s1.manualClose /\ s1.opts.enabled
            THEN attemptReconnection(s1, rnd) ELSE s1
    ELSE LET h == Len(s.handles) + 1
             s1 == [s EXCEPT !.handles = Append(@, [state |-> "Connecting",
                                                    wiring |-> "reconnect",
                                                    opened |-> FALSE]),
                             !.ws = h]
         IN setTimeout(s1, "connect", ReconnectConnectTimeout, h)

(* close() that forgets the pending reconnection timer *)
closeKeepsTimer(s, fault) ==
    LET s1 == [s EXCEPT !.manualClose = TRUE]
    IN IF fault THEN [s1 EXCEPT !.closeResult = "WebSocketError"]
                ELSE [wsClose(s1, s1.ws) EXCEPT !.closeResult = "ok"]

(* close() that reports success when the transport's close has thrown *)
closeSwallowsFault(s, fault) ==
    LET s1 == [s EXCEPT !.manualClose = TRUE]
        s2 == IF s1.reconnectTimeoutId # 0
              THEN [clearTimeout(s1, s1.reconnectTimeoutId) EXCEPT !.reconnectTimeoutId = 0]
              ELSE s1
    IN IF fault THEN [s2 EXCEPT !.closeResult = "ok"]
                ELSE [wsClose(s2, s2.ws) EXCEPT !.closeResult = "ok"]

(* close() that takes back the manual-close flag when the transport's close throws *)
closeRollsBack(s, fault) ==
    LET s1 == [s EXCEPT !.manualClose = TRUE]
        s2 == IF s1.reconnectTimeoutId # 0
              THEN [clearTimeout(s1, s1.reconnectTimeoutId) EXCEPT !.reconnectTimeoutId = 0]
              ELSE s1
    IN IF fault THEN [s2 EXCEPT !.closeResult = "WebSocketError", !.manualClose = FALSE]
                ELSE [wsClose(s2, s2.ws) EXCEPT !.closeResult = "ok"]

(* close(code, reason).  fault: the transport's close throws *)
close(s, fault) ==
    LET s1 == [s EXCEPT !.manualClose = TRUE]
        s2 == IF s1.reconnectTimeoutId # 0
              THEN [clearTimeout(s1, s1.reconnectTimeoutId) EXCEPT !.reconnectTimeoutId = 0]
              ELSE s1
    IN IF fault THEN [s2 EXCEPT !.closeResult = "WebSocketError"]
                ELSE [wsClose(s2, s2.ws) EXCEPT !.closeResult = "ok"]

(* a finalizer that also shuts down the client's two queues *)
finalizerShutsDown(s, ws0) ==
    LET s1 == [s EXCEPT !.manualClose = TRUE,
                        !.shutdownQueues = {"messageQueue", "eventQueue"}]
        s2 == IF s1.reconnectTimeoutId # 0
              THEN clearTimeout(s1, s1.reconnectTimeoutId) ELSE s1
    IN IF s2.handles[ws0].state \in {"Open", "Connecting"} THEN wsClose(s2, ws0) ELSE s2

(* the scope finalizer of makeWebSocketClient; ws0 is the handle that
   makeWebSocketClient created and its closure captured *)
finalizer(s, ws0) ==
    LET s1 == [s EXCEPT !.manualClose = TRUE]
        s2 == IF s1.reconnectTimeoutId # 0
              THEN clearTimeout(s1, s1.reconnectTimeoutId) ELSE s1
    IN IF s2.handles[ws0].state \in {"Open", "Connecting"} THEN wsClose(s2, ws0) ELSE s2

(* send(message).  blob: the message is a Blob, whose bytes are handed to
   the transport by the continuation of message.arrayBuffer(), after send
   has returned.  fault: the transport's send throws.  Each call leaves one
   entry in sendLog: the handle that was current (at) and the readyState it
   saw, its result, whether the
   transport raised a fault for the payload, the handle that was handed
   the payload (0: none) and whether the bytes are still awaited. *)
send(s, data, blob, fault) ==
    LET state == s.handles[s.ws].state
        entry == [data |-> data, blob |-> blob, at |-> s.ws, state |-> state,
                  result |-> "WebSocketSendError", fault |-> FALSE,
                  handed |-> 0, pending |-> FALSE]
    IN IF state = "Open"
       THEN IF blob
            THEN [s EXCEPT !.sendLog = Append(@, [entry EXCEPT !.result = "ok",
                                                                !.pending = TRUE])]
            ELSE IF fault
                 THEN [s EXCEPT !.sendLog = Append(@, [entry EXCEPT !.fault = TRUE])]
                 ELSE [s EXCEPT !.sendLog = Append(@, [entry EXCEPT !.result = "ok",
                                                                     !.handed = s.ws])]
       ELSE [s EXCEPT !.sendLog = Append(@, entry)]

(* buffer => this.ws.send(buffer): the continuation of the i-th send's
   arrayBuffer().  It sends on the handle that is current now; a payload
   sent on a handle that is not Open, or one for which the transport
   throws, reaches nobody, and nothing observes the rejected promise. *)
arrayBufferThen(s, i, fault) ==
    LET open == s.handles[s.ws].state = "Open"
    IN [s EXCEPT !.sendLog[i].pending = FALSE,
                 !.sendLog[i].fault = fault,
                 !.sendLog[i].handed = IF open /\ ~fault THEN s.ws ELSE 0]

(* readyState: the state of the current handle *)
readyState == IF ws = 0 THEN "Closed" ELSE handles[ws].state

(* The wait for the first open is over (onOpen or onError has resumed the
   construction).  Effect.async ignores a second resume, so from here on the
   callback of the wait's timer changes nothing: the timer leaves the model. *)
endWait(s) == [s EXCEPT !.timers = {tm \in @ : tm.kind # "initial"}]

(* ---- packing the state for the handlers ---- *)
Pack(cause) ==
    [opts |-> reconnectionOptions, cause |-> cause, now |-> now,
     handles |-> handles, ws |-> ws,
     reconnectAttemptsCount |-> reconnectAttemptsCount,
     isCurrentlyReconnecting |-> isCurrentlyReconnecting,
     manualClose |-> manualClose, reconnectTimeoutId |-> reconnectTimeoutId,
     timers |-> timers, timerSeq |-> timerSeq,
     messageQueue |-> messageQueue, eventQueue |-> eventQueue,
     offers |-> offers, failedDials |-> failedDials,
     sendLog |-> sendLog, closeResult |-> closeResult,
     shutdownQueues |-> shutdownQueues]

Unpack(s) ==
    /\ handles' = s.handles
    /\ ws' = s.ws
    /\ reconnectAttemptsCount' = s.reconnectAttemptsCount
    /\ isCurrentlyReconnecting' = s.isCurrentlyReconnecting
    /\ manualClose' = s.manualClose
    /\ reconnectTimeoutId' = s.reconnectTimeoutId
    /\ timers' = s.timers
    /\ timerSeq' = s.timerSeq
    /\ messageQueue' = s.messageQueue
    /\ eventQueue' = s.eventQueue
    /\ offers' = s.offers
    /\ failedDials' = s.failedDials
    /\ sendLog' = s.sendLog
    /\ closeResult' = s.closeResult
    /\ shutdownQueues' = s.shutdownQueues

InitClient(policies) ==
    /\ reconnectionOptions \in policies
    /\ pc = "start"
    /\ scopeClosed = FALSE
    /\ closeCalled = FALSE
    /\ handles = << >>
    /\ ws = 0
    /\ reconnectAttemptsCount = 0
    /\ isCurrentlyReconnecting = FALSE
    /\ manualClose = FALSE
    /\ reconnectTimeoutId = 0
    /\ timers = {}
    /\ timerSeq = 0
    /\ now = 0
    /\ messageQueue = << >>
    /\ eventQueue = << >>
    /\ msgSeen = << >>
    /\ evtSeen = << >>
    /\ offers = 0
    /\ raised = 0
    /\ dials = 0
    /\ failedDials = 0
    /\ transportLog = << >>
    /\ sendLog = << >>
    /\ closeResult = "none"
    /\ closeSucceeded = FALSE
    /\ delayOut = [n |-> 0, rnd |-> 0, delay |-> 0]
    /\ shutdownQueues = {}

(* the server before makeWebSocketServer *)
InitServerVars(platforms) ==
    /\ platform \in platforms
    /\ serverPc = "start"
    /\ conns = << >>
    /\ connectionMap = {}
    /\ connectionQueue = << >>
    /\ serverMessageQueue = << >>
    /\ connSeen = << >>
    /\ serverMsgSeen = << >>
    /\ serverOffers = 0
    /\ arrivals = << >>
    /\ connSendLog = << >>

InitWith(policies) == InitClient(policies) /\ InitServerVars({"node"})

(* ---- makeWebSocketClient ---- *)
(* new WebSocket(url), the client, setupEventListeners, the wait for open
   with its 10 s timer.  fault: new WebSocket throws *)
Make(fault) ==
    /\ pc = "start"
    /\ IF fault
       THEN /\ pc' = "failed"
            /\ UNCHANGED << handles, ws, timers, timerSeq >>
       ELSE /\ pc' = "dialing"
            /\ handles' = << [state |-> "Connecting", wiring |-> "setup", opened |-> FALSE] >>
            /\ ws' = 1
            /\ timers' = {[id |-> timerSeq + 1, kind |-> "initial",
                           due |-> now + InitialConnectTimeout, h |-> 1]}
            /\ timerSeq' = timerSeq + 1
    /\ UNCHANGED << serverVars, shutdownQueues, transportLog, sendLog, closeResult, closeSucceeded, delayOut, reconnectionOptions, scopeClosed, closeCalled,
                    reconnectAttemptsCount, isCurrentlyReconnecting, manualClose,
                    reconnectTimeoutId, now, messageQueue, eventQueue, msgSeen,
                    evtSeen, offers, raised, dials, failedDials >>

(* the timer of the wait for the first open *)
InitialTimeoutFires ==
    \E tm \in timers :
        /\ tm.kind = "initial"
        /\ tm.due = now
        /\ timers' = timers \ {tm}
        /\ pc' = IF handles[tm.h].state # "Open" /\ pc = "dialing" THEN "failed" ELSE pc
        /\ UNCHANGED << serverVars, shutdownQueues, transportLog, sendLog, closeResult, closeSucceeded, delayOut, reconnectionOptions, scopeClosed, closeCalled, handles, ws,
                        reconnectAttemptsCount, isCurrentlyReconnecting, manualClose,
                        reconnectTimeoutId, timerSeq, now, messageQueue, eventQueue,
                        msgSeen, evtSeen, offers, raised, dials, failedDials >>

(* ---- transport notifications ---- *)
(* The transport raises one notification at a time.  open: Connecting ->
   Open.  error: the connection is failing, the handle is no longer Open or
   Connecting and its closed notification is still to come.  message: on an
   Open handle.  close: the handle becomes Closed, once per handle.  Which
   callbacks run is decided by who wired the handle: setupEventListeners
   for the first handle, performReconnection for the later ones. *)
TransportOpen(h) ==
    /\ h \in 1..Len(handles)
    /\ raised < MaxRaised
    /\ handles[h].state = "Connecting"
    /\ raised' = raised + 1
    /\ LET s0 == [Pack(raised + 1) EXCEPT !.handles[h].state = "Open",
                                          !.handles[h].opened = TRUE]
           s1 == IF handles[h].wiring = "setup" THEN setupOnOpen(s0, h)
                                                ELSE reconnectOnOpen(s0, h)
       IN Unpack(IF pc = "dialing" /\ h = 1 THEN endWait(s1) ELSE s1)
    /\ pc' = IF pc = "dialing" /\ h = 1 THEN "constructed" ELSE pc
    /\ transportLog' = Append(transportLog, [kind |-> "open", h |-> h, code |-> 0, data |-> ""])
    /\ UNCHANGED << serverVars, closeSucceeded, delayOut, reconnectionOptions, scopeClosed, closeCalled, now, msgSeen,
                    evtSeen, dials >>

TransportError(h) ==
    /\ h \in 1..Len(handles)
    /\ raised < MaxRaised
    /\ handles[h].state \in {"Connecting", "Open"}
    /\ raised' = raised + 1
    /\ LET s0 == [Pack(raised + 1) EXCEPT !.handles[h].state = "Closing"]
           s1 == IF handles[h].wiring = "setup" THEN setupOnError(s0, h)
                                                ELSE reconnectOnError(s0, h)
       IN Unpack(IF pc = "dialing" /\ h = 1 THEN endWait(s1) ELSE s1)
    /\ pc' = IF pc = "dialing" /\ h = 1 THEN "failed" ELSE pc
    /\ transportLog' = Append(transportLog, [kind |-> "error", h |-> h, code |-> 0, data |-> ""])
    /\ UNCHANGED << serverVars, closeSucceeded, delayOut, reconnectionOptions, scopeClosed, closeCalled, now, msgSeen,
                    evtSeen, dials >>

TransportMessage(h, data) ==
    /\ h \in 1..Len(handles)
    /\ raised < MaxRaised
    /\ handles[h].state = "Open"
    /\ Len(msgSeen) + Len(messageQueue) < MaxMessages
    /\ raised' = raised + 1
    /\ LET s0 == Pack(raised + 1)
       IN Unpack(IF handles[h].wiring = "setup" THEN setupOnMessage(s0, h, data)
                                               ELSE reconnectOnMessage(s0, h, data))
    /\ transportLog' = Append(transportLog, [kind |-> "message", h |-> h, code |-> 0, data |-> data])
    /\ UNCHANGED << serverVars, closeSucceeded, delayOut, reconnectionOptions, pc, scopeClosed, closeCalled, now, msgSeen,
                    evtSeen, dials >>

TransportClose(h, code, rnd) ==
    /\ h \in 1..Len(handles)
    /\ raised < MaxRaised
    /\ handles[h].state # "Closed"
    /\ raised' = raised + 1
    /\ LET s0 == [Pack(raised + 1) EXCEPT !.handles[h].state = "Closed"]
       IN Unpack(IF handles[h].wiring = "setup" THEN setupOnClose(s0, h, code, rnd)
                                               ELSE reconnectOnClose(s0, h, code, rnd))
    /\ transportLog' = Append(transportLog, [kind |-> "close", h |-> h, code |-> code, data |-> ""])
    /\ UNCHANGED << serverVars, closeSucceeded, delayOut, reconnectionOptions, pc, scopeClosed, closeCalled, now, msgSeen,
                    evtSeen, dials >>

(* ---- timers of the reconnection ---- *)
ReconnectTimerFires(fault, rnd) ==
    \E tm \in timers :
        /\ tm.kind = "reconnect"
        /\ tm.due = now
        /\ dials < MaxDials
        /\ dials' = dials + 1
        /\ Unpack(performReconnection([Pack(0) EXCEPT !.timers = @ \ {tm}], fault, rnd))
        /\ UNCHANGED << serverVars, transportLog, closeSucceeded, delayOut, reconnectionOptions, pc, scopeClosed, closeCalled, now,
                        msgSeen, evtSeen, raised >>

ConnectTimeoutFires ==
    \E tm \in timers :
        /\ tm.kind = "connect"
        /\ tm.due = now
        /\ LET s0 == [Pack(0) EXCEPT !.timers = @ \ {tm}]
           IN Unpack(IF s0.handles[s0.ws].state # "Open" THEN wsClose(s0, s0.ws) ELSE s0)
        /\ UNCHANGED << serverVars, transportLog, closeSucceeded, delayOut, reconnectionOptions, pc, scopeClosed, closeCalled, now,
                        msgSeen, evtSeen, raised, dials >>

NextDue == CHOOSE d \in {tm.due : tm \in timers} : \A tm \in timers : d <= tm.due

Advance ==
    /\ timers # {}
    /\ now < NextDue
    /\ now' = NextDue
    /\ UNCHANGED << serverVars, shutdownQueues, transportLog, sendLog, closeResult, closeSucceeded, delayOut, reconnectionOptions, pc, scopeClosed, closeCalled, handles, ws,
                    reconnectAttemptsCount, isCurrentlyReconnecting, manualClose,
                    reconnectTimeoutId, timers, timerSeq, messageQueue, eventQueue,
                    msgSeen, evtSeen, offers, raised, dials, failedDials >>

(* ---- the caller ---- *)
Close(fault) ==
    /\ pc = "constructed"
    /\ closeCalled' = TRUE
    /\ Unpack(close(Pack(0), fault))
    /\ closeSucceeded' = (closeSucceeded \/ ~fault)
    /\ UNCHANGED << serverVars, transportLog, delayOut, reconnectionOptions, pc, scopeClosed, now, msgSeen, evtSeen,
                    raised, dials >>

ScopeExit ==
    /\ pc = "constructed"
    /\ ~scopeClosed
    /\ scopeClosed' = TRUE
    /\ Unpack(finalizer(Pack(0), 1))
    /\ UNCHANGED << serverVars, transportLog, closeSucceeded, delayOut, reconnectionOptions, pc, closeCalled, now, msgSeen, evtSeen,
                    raised, dials >>

Send(data, blob, fault) ==
    /\ pc = "constructed"
    /\ Len(sendLog) < MaxSends
    /\ Unpack(send(Pack(0), data, blob, fault))
    /\ UNCHANGED << serverVars, reconnectionOptions, pc, scopeClosed, closeCalled, now, msgSeen,
                    evtSeen, raised, dials, transportLog, closeSucceeded, delayOut >>

ArrayBufferResolves(i, fault) ==
    /\ i \in 1..Len(sendLog)
    /\ sendLog[i].pending
    /\ Unpack(arrayBufferThen(Pack(0), i, fault))
    /\ UNCHANGED << serverVars, reconnectionOptions, pc, scopeClosed, closeCalled, now, msgSeen,
                    evtSeen, raised, dials, transportLog, closeSucceeded, delayOut >>

(* ---- calculateReconnectionDelay on its own ---- *)
(* the delay before reconnection attempt n under the client's policy, with
   Math.random() = rnd / RandomDenominator *)
ComputeDelay(n, rnd) ==
    /\ delayOut' = [n |-> n, rnd |-> rnd,
                    delay |-> calculateReconnectionDelay(n, reconnectionOptions, rnd)]
    /\ UNCHANGED << serverVars, shutdownQueues, reconnectionOptions, pc, scopeClosed, closeCalled, handles, ws,
                    reconnectAttemptsCount, isCurrentlyReconnecting, manualClose,
                    reconnectTimeoutId, timers, timerSeq, now, messageQueue, eventQueue,
                    msgSeen, evtSeen, offers, raised, dials, failedDials,
                    transportLog, sendLog, closeResult, closeSucceeded >>

(* Stream.fromQueue: the consumer takes the head *)
TakeMessage ==
    /\ pc = "constructed"
    /\ "messageQueue" \notin shutdownQueues
    /\ messageQueue # << >>
    /\ msgSeen' = Append(msgSeen, Head(messageQueue))
    /\ messageQueue' = Tail(messageQueue)
    /\ UNCHANGED << serverVars, shutdownQueues, transportLog, sendLog, closeResult, closeSucceeded, delayOut, reconnectionOptions, pc, scopeClosed, closeCalled, handles, ws,
                    reconnectAttemptsCount, isCurrentlyReconnecting, manualClose,
                    reconnectTimeoutId, timers, timerSeq, now, eventQueue, evtSeen,
                    offers, raised, dials, failedDials >>

(* a consumer that is handed the newest event instead of the oldest *)
TakeEventNewest ==
    /\ pc = "constructed"
    /\ "eventQueue" \notin shutdownQueues
    /\ eventQueue # << >>
    /\ evtSeen' = Append(evtSeen, eventQueue[Len(eventQueue)])
    /\ eventQueue' = SubSeq(eventQueue, 1, Len(eventQueue) - 1)
    /\ UNCHANGED << serverVars, shutdownQueues, transportLog, sendLog, closeResult, closeSucceeded, delayOut, reconnectionOptions, pc, scopeClosed, closeCalled, handles, ws,
                    reconnectAttemptsCount, isCurrentlyReconnecting, manualClose,
                    reconnectTimeoutId, timers, timerSeq, now, messageQueue, msgSeen,
                    offers, raised, dials, failedDials >>

TakeEvent ==
    /\ pc = "constructed"
    /\ "eventQueue" \notin shutdownQueues
    /\ eventQueue # << >>
    /\ evtSeen' = Append(evtSeen, Head(eventQueue))
    /\ eventQueue' = Tail(eventQueue)
    /\ UNCHANGED << serverVars, shutdownQueues, transportLog, sendLog, closeResult, closeSucceeded, delayOut, reconnectionOptions, pc, scopeClosed, closeCalled, handles, ws,
                    reconnectAttemptsCount, isCurrentlyReconnecting, manualClose,
                    reconnectTimeoutId, timers, timerSeq, now, messageQueue, msgSeen,
                    offers, raised, dials, failedDials >>

Next ==
    \/ \E fault \in BOOLEAN : Make(fault)
    \/ InitialTimeoutFires
    \/ \E h \in 1..Len(handles) : TransportOpen(h)
    \/ \E h \in 1..Len(handles) : TransportError(h)
    \/ \E h \in 1..Len(handles), data \in Payloads : TransportMessage(h, data)
    \/ \E h \in 1..Len(handles), code \in CloseCodes,
          rnd \in RandomSamples(reconnectionOptions) : TransportClose(h, code, rnd)
    \/ \E fault \in BOOLEAN, rnd \in RandomSamples(reconnectionOptions) :
          ReconnectTimerFires(fault, rnd)
    \/ ConnectTimeoutFires
    \/ Advance
    \/ \E fault \in BOOLEAN : Close(fault)
    \/ ScopeExit

Init == InitWith(Policies)

Spec == Init /\ [][Next]_vars

(* The client together with the consumer of its two streams. *)
StreamPolicies == {opts \in Policies : opts.enabled /\ opts.maxAttempts = 1}

InitStream == InitWith(StreamPolicies)

NextStream ==
    \/ Next
    \/ TakeMessage
    \/ TakeEvent

SpecStream == InitStream /\ [][NextStream]_vars

(* the controller with a caller that sends *)
InitSend == InitWith(StreamPolicies)

NextSend ==
    \/ Next
    \/ \E data \in Payloads, blob \in BOOLEAN, fault \in BOOLEAN : Send(data, blob, fault)
    \/ \E i \in 1..Len(sendLog), fault \in BOOLEAN : ArrayBufferResolves(i, fault)

SpecSend == InitSend /\ [][NextSend]_vars

(* calculateReconnectionDelay over a range of policies, attempt numbers and
   random samples.  The delays are multiples of 4 * RandomDenominator *
   (RandomDenominator + 1), so that the jitter is a whole number of
   milliseconds. *)
DelayUnit == 4 * RandomDenominator * (RandomDenominator + 1)

DelayPolicies ==
    {[enabled |-> TRUE, initialDelay |-> i * DelayUnit, maxDelay |-> m * DelayUnit,
      maxAttempts |-> MaxAttemptNumber, backoffMultiplier |-> b, jitter |-> j] :
        i \in {0, 1, 2}, m \in {2, 5, 12}, b \in {0, 1, 2, 3}, j \in BOOLEAN}

InitDelay == InitWith(DelayPolicies)

NextDelay ==
    \E n \in 1..MaxAttemptNumber, rnd \in RandomSamples(reconnectionOptions) :
        ComputeDelay(n, rnd)

SpecDelay == InitDelay /\ [][NextDelay]_vars

(* ---- the server: packages/node and packages/bun ---- *)
(* MaxServerEvents bounds the connections, messages and sends of a run together *)
MaxConnections == 2
MaxServerMessages == 2
MaxServerEvents == 4

(* Math.random().toString(36).substring(7): a short string, which can be
   empty and can repeat *)
Ids == {"", "a1"}

(* the id that bun's connectionMap holds for a transport ("" when none) *)
connectionMapGet(map, h) ==
    IF \E p \in map : p[1] = h THEN (CHOOSE p \in map : p[1] = h)[2] ELSE ""

connectionMapSet(map, h, id) == {p \in map : p[1] # h} \cup {<< h, id >>}

connectionMapDelete(map, h) == {p \in map : p[1] # h}

(* makeWebSocketServer.  fault: creating the listener throws *)
MakeServer(fault) ==
    /\ serverPc = "start"
    /\ serverPc' = IF fault THEN "stopped" ELSE "serving"
    /\ UNCHANGED << clientVars, platform, conns, connectionMap, connectionQueue,
                    serverMessageQueue, connSeen, serverMsgSeen, serverOffers,
                    arrivals, connSendLog >>

(* a connection handler that offers the connection twice *)
AcceptTwice(id) ==
    /\ serverPc = "serving"
    /\ Len(conns) < MaxConnections
    /\ Len(conns) + Len(arrivals) + Len(connSendLog) < MaxServerEvents
    /\ LET h == Len(conns) + 1
       IN /\ conns' = Append(conns, [state |-> "Open", id |-> id])
          /\ connectionMap' = IF platform = "bun" THEN connectionMapSet(connectionMap, h, id)
                                                  ELSE connectionMap
          /\ connectionQueue' = connectionQueue \o
                << [ws |-> h, id |-> id, n |-> serverOffers + 1],
                   [ws |-> h, id |-> id, n |-> serverOffers + 2] >>
          /\ serverOffers' = serverOffers + 2
    /\ UNCHANGED << clientVars, platform, serverPc, serverMessageQueue, connSeen,
                    serverMsgSeen, arrivals, connSendLog >>

(* wss.on('connection') / websocket.open: a client has connected; the
   handler draws an id, wraps the transport and offers the connection *)
Accept(id) ==
    /\ serverPc = "serving"
    /\ Len(conns) < MaxConnections
    /\ Len(conns) + Len(arrivals) + Len(connSendLog) < MaxServerEvents
    /\ LET h == Len(conns) + 1
       IN /\ conns' = Append(conns, [state |-> "Open", id |-> id])
          /\ connectionMap' = IF platform = "bun" THEN connectionMapSet(connectionMap, h, id)
                                                  ELSE connectionMap
          /\ connectionQueue' = Append(connectionQueue,
                                       [ws |-> h, id |-> id, n |-> serverOffers + 1])
          /\ serverOffers' = serverOffers + 1
    /\ UNCHANGED << clientVars, platform, serverPc, serverMessageQueue, connSeen,
                    serverMsgSeen, arrivals, connSendLog >>

(* a message handler that labels every message with the id of the newest connection *)
messageIdOfNewest(h) == conns[Len(conns)].id

(* the id under which a message of transport h is offered: node's handler
   closes over the id of its connection, bun's looks it up in connectionMap *)
messageId(h) ==
    IF platform = "node" THEN conns[h].id ELSE connectionMapGet(connectionMap, h)

(* ws.on('message') / websocket.message.  k: position among the arrivals *)
ServerTransportMessage(h, data) ==
    /\ h \in 1..Len(conns)
    /\ conns[h].state \in {"Open", "Closing"}
    /\ Len(arrivals) < MaxServerMessages
    /\ Len(conns) + Len(arrivals) + Len(connSendLog) < MaxServerEvents
    /\ arrivals' = Append(arrivals, [ws |-> h, data |-> data])
    /\ IF platform = "node" \/ messageId(h) # ""
       THEN /\ serverMessageQueue' = Append(serverMessageQueue,
                    [connectionId |-> messageId(h), data |-> data, ws |-> h,
                     k |-> Len(arrivals) + 1, n |-> serverOffers + 1])
            /\ serverOffers' = serverOffers + 1
       ELSE UNCHANGED << serverMessageQueue, serverOffers >>
    /\ UNCHANGED << clientVars, platform, serverPc, conns, connectionMap,
                    connectionQueue, connSeen, serverMsgSeen, connSendLog >>

(* ws.on('close') / websocket.close *)
ServerTransportClose(h) ==
    /\ h \in 1..Len(conns)
    /\ conns[h].state # "Closed"
    /\ conns' = [conns EXCEPT ![h].state = "Closed"]
    /\ connectionMap' = IF platform = "bun" THEN connectionMapDelete(connectionMap, h)
                                            ELSE connectionMap
    /\ UNCHANGED << clientVars, platform, serverPc, connectionQueue,
                    serverMessageQueue, connSeen, serverMsgSeen, serverOffers,
                    arrivals, connSendLog >>

(* a connection.send without the readyState test *)
connectionSendUnchecked(h, data, fault) ==
    [ws |-> h, data |-> data, state |-> conns[h].state,
     result |-> IF fault THEN "WebSocketServerError" ELSE "ok",
     handed |-> ~fault]

(* connection.send(message).  fault: the transport's send throws *)
connectionSend(h, data, fault) ==
    [ws |-> h, data |-> data, state |-> conns[h].state,
     result |-> IF conns[h].state = "Open" /\ ~fault THEN "ok" ELSE "WebSocketServerError",
     handed |-> (conns[h].state = "Open" /\ ~fault)]

(* the caller holds the c-th connection it took from server.connections *)
ConnectionSend(c, data, fault) ==
    /\ c \in 1..Len(connSeen)
    /\ Len(conns) + Len(arrivals) + Len(connSendLog) < MaxServerEvents
    /\ connSendLog' = Append(connSendLog, connectionSend(connSeen[c].ws, data, fault))
    /\ UNCHANGED << clientVars, platform, serverPc, conns, connectionMap,
                    connectionQueue, serverMessageQueue, connSeen, serverMsgSeen,
                    serverOffers, arrivals >>

(* connection.close(code, reason).  fault: the transport's close throws *)
ConnectionClose(c, fault) ==
    /\ c \in 1..Len(connSeen)
    /\ LET h == connSeen[c].ws
       IN conns' = IF ~fault /\ conns[h].state = "Open"
                   THEN [conns EXCEPT ![h].state = "Closing"] ELSE conns
    /\ UNCHANGED << clientVars, platform, serverPc, connectionMap, connectionQueue,
                    serverMessageQueue, connSeen, serverMsgSeen, serverOffers,
                    arrivals, connSendLog >>

(* server.close() and the scope finalizer: wss.close() / server.stop(), the
   listener stops accepting and the established connections stay *)
ServerClose ==
    /\ serverPc = "serving"
    /\ serverPc' = "stopped"
    /\ UNCHANGED << clientVars, platform, conns, connectionMap, connectionQueue,
                    serverMessageQueue, connSeen, serverMsgSeen, serverOffers,
                    arrivals, connSendLog >>

(* Stream.fromQueue(connectionQueue) and Stream.fromQueue(messageQueue) *)
TakeConnection ==
    /\ serverPc # "start"
    /\ connectionQueue # << >>
    /\ connSeen' = Append(connSeen, Head(connectionQueue))
    /\ connectionQueue' = Tail(connectionQueue)
    /\ UNCHANGED << clientVars, platform, serverPc, conns, connectionMap,
                    serverMessageQueue, serverMsgSeen, serverOffers, arrivals,
                    connSendLog >>

TakeServerMessage ==
    /\ serverPc # "start"
    /\ serverMessageQueue # << >>
    /\ serverMsgSeen' = Append(serverMsgSeen, Head(serverMessageQueue))
    /\ serverMessageQueue' = Tail(serverMessageQueue)
    /\ UNCHANGED << clientVars, platform, serverPc, conns, connectionMap,
                    connectionQueue, connSeen, serverOffers, arrivals, connSendLog >>

InitServer == InitClient({defaultReconnectionOptions}) /\ InitServerVars({"node", "bun"})

NextServer ==
    \/ \E fault \in BOOLEAN : MakeServer(fault)
    \/ \E id \in Ids : Accept(id)
    \/ \E h \in 1..Len(conns), data \in Payloads : ServerTransportMessage(h, data)
    \/ \E h \in 1..Len(conns) : ServerTransportClose(h)
    \/ \E c \in 1..Len(connSeen), data \in Payloads, fault \in BOOLEAN :
          ConnectionSend(c, data, fault)
    \/ \E c \in 1..Len(connSeen), fault \in BOOLEAN : ConnectionClose(c, fault)
    \/ ServerClose
    \/ TakeConnection
    \/ TakeServerMessage

SpecServer == InitServer /\ [][NextServer]_vars

(* ---- what the properties read ---- *)
AllEvents == evtSeen \o eventQueue          \* every event ever offered, in offer order
AllMessages == msgSeen \o messageQueue      \* every message ever offered, in offer order

EventsTagged(seq, tag) == SelectSeq(seq, LAMBDA e : e.tag = tag)

LastIndexOf(seq, tag) ==
    IF \E i \in 1..Len(seq) : seq[i].tag = tag
    THEN CHOOSE i \in 1..Len(seq) :
            /\ seq[i].tag = tag
            /\ \A j \in (i + 1)..Len(seq) : seq[j].tag # tag
    ELSE 0

EventsSinceLast(tag) == SubSeq(AllEvents, LastIndexOf(AllEvents, tag) + 1, Len(AllEvents))

ReconnectTimers == {tm \in timers : tm.kind = "reconnect"}

LiveHandles == {h \in 1..Len(handles) : handles[h].state \in {"Open", "Connecting"}}

(* nothing is pending: no timer, and every handle has reported closed *)
Quiescent ==
    /\ timers = {}
    /\ \A h \in 1..Len(handles) : handles[h].state = "Closed"

(* ---------------------------------------------------------------------- *)
(* C1: once the scope has exited (the finalizer has run), the manual-close
   flag is set, no reconnection timer is pending, and no transport handle
   of the client is Open or Connecting.  The finalizer closes the handle
   that makeWebSocketClient created, not the client's current one, so a
   handle created by reconnection survives the scope: violated. *)
C1_ScopeExitReleasesTransport ==
    scopeClosed => /\ manualClose
                   /\ ReconnectTimers = {}
                   /\ LiveHandles = {}

(* C2: when construction has failed, no reconnection is attempted for it:
   no Reconnecting event, no reconnection timer, no second handle.  The
   callbacks of the first handle stay wired after the failure, and its
   closed notification starts the reconnection when enabled: violated. *)
C2_FirstDialFailureIsFinal ==
    pc = "failed" => /\ EventsTagged(AllEvents, "reconnecting") = << >>
                     /\ ReconnectTimers = {}
                     /\ Len(handles) <= 1

(* C3: once close() has been called, no reconnection timer is pending, and
   no step emits a Reconnecting event or creates a transport handle. *)
C3_CloseSuppressesReconnection ==
    [][ /\ closeCalled' => ReconnectTimers' = {}
        /\ closeCalled =>
              /\ Len(handles') = Len(handles)
              /\ EventsTagged(AllEvents', "reconnecting") = EventsTagged(AllEvents, "reconnecting")
      ]_vars

(* close() was called while the first reconnection timer was pending (the
   attempt is marked in flight but was never performed), with enabled = true,
   and the timer is gone *)
C3_Witness ==
    /\ closeCalled /\ ~scopeClosed
    /\ reconnectionOptions.enabled
    /\ isCurrentlyReconnecting /\ dials = 0
    /\ timers = {}

(* C4: a failed reconnection dial is followed by Reconnecting or
   ReconnectFailed unless close() or scope exit intervenes.  Stated on the
   states in which nothing is pending any more (no timer, no live handle):
   there the controller must have ended with ReconnectFailed.  A dial that
   fails by a closed notification leaves isCurrentlyReconnecting set, so
   attemptReconnection returns at its guard and nothing is scheduled:
   violated. *)
C4_FailedDialIsRetried ==
    ( /\ reconnectionOptions.enabled
      /\ ~manualClose
      /\ failedDials > 0
      /\ Quiescent )
    => /\ AllEvents # << >>
       /\ AllEvents[Len(AllEvents)].tag = "reconnect_failed"

(* C5: with maxAttempts = N > 0 and no successful open among the failures,
   exactly one ReconnectFailed is emitted, it carries N, and no Reconnecting
   follows it.  "Exactly one" is read where the outage has come to rest
   (nothing pending).  Violated through the stall of C4: none is emitted. *)
C5_ExactlyOneReconnectFailed ==
    LET outage == EventsSinceLast("open")
        failed == EventsTagged(outage, "reconnect_failed")
    IN ( /\ reconnectionOptions.enabled
         /\ reconnectionOptions.maxAttempts > 0
         /\ failedDials > 0 )
       => /\ Len(failed) <= 1
          /\ \A i \in 1..Len(failed) : failed[i].attempt = reconnectionOptions.maxAttempts
          /\ failed # << >> => outage[Len(outage)].tag = "reconnect_failed"
          /\ (Quiescent /\ ~manualClose) => Len(failed) = 1

(* the delay of attempt i without jitter, in closed form *)
ExpectedDelay(i) ==
    Min(reconnectionOptions.initialDelay * Pow(reconnectionOptions.backoffMultiplier, i - 1),
        reconnectionOptions.maxDelay)

RECURSIVE DelaysBefore(_)
DelaysBefore(i) == IF i <= 1 THEN 0 ELSE DelaysBefore(i - 1) + ExpectedDelay(i - 1)

(* every reconnection dial so far raised a synchronous fault: the session
   that opened has closed and no second handle was ever created *)
OnlySyncFaults ==
    /\ Len(handles) = 1
    /\ handles[1].opened
    /\ handles[1].state = "Closed"

(* C6: with enabled, maxAttempts = N > 0, no jitter and only synchronous
   dial faults, the events after the triggering Closed are Reconnecting(1),
   ..., Reconnecting(N), ReconnectFailed(N) in that order; event i+1 is
   emitted exactly the delay of attempt i after event i; and each fault
   re-enters the decision in the same step (one event per dial, plus the
   first). *)
C6_ExhaustionSequence ==
    LET N == reconnectionOptions.maxAttempts
        E == EventsSinceLast("close")
        tc == AllEvents[LastIndexOf(AllEvents, "close")].t
    IN ( /\ reconnectionOptions.enabled /\ N > 0 /\ ~reconnectionOptions.jitter
         /\ OnlySyncFaults )
       => /\ Len(E) <= N + 1
          /\ \A i \in 1..Len(E) :
                /\ E[i].t = tc + DelaysBefore(i)
                /\ IF i <= N
                   THEN E[i].tag = "reconnecting" /\ E[i].attempt = i
                   ELSE E[i].tag = "reconnect_failed" /\ E[i].attempt = N
          /\ Len(E) \in {0, dials + 1}
          /\ ~manualClose => Len(E) = dials + 1

(* the scenario: three synchronous faults, ReconnectFailed(3) 300 ms after
   the Closed event *)
C6_Witness ==
    /\ reconnectionOptions = ScenarioPolicy
    /\ OnlySyncFaults
    /\ dials = 3
    /\ Len(EventsSinceLast("close")) = 4
    /\ AllEvents[Len(AllEvents)].tag = "reconnect_failed"
    /\ AllEvents[Len(AllEvents)].t = AllEvents[LastIndexOf(AllEvents, "close")].t + 300

ReconnectingSinceOpen == Len(EventsTagged(EventsSinceLast("open"), "reconnecting"))

(* C7 as claimed: after k consecutive failed reconnection attempts
   reconnectAttempts equals k. *)
C7_AttemptsEqualFailures ==
    (pc = "constructed" /\ reconnectionOptions.enabled /\ failedDials > 0)
        => reconnectAttemptsCount = failedDials

(* C7 as amended: after k consecutive failed reconnection attempts
   reconnectAttempts is the number of attempts scheduled in the outage (one
   per Reconnecting event since the last Opened); that is k or k + 1: k + 1
   while the next attempt's timer is pending, k where the outage has come to
   rest without close() or scope exit. *)
C7_AttemptsCountScheduled ==
    failedDials > 0 =>
        /\ reconnectAttemptsCount = ReconnectingSinceOpen
        /\ reconnectAttemptsCount \in {failedDials, failedDials + 1}
        /\ ReconnectTimers # {} => reconnectAttemptsCount = failedDials + 1
        /\ (Quiescent /\ ~manualClose) => reconnectAttemptsCount = failedDials

(* two synchronous faults in a row, the third attempt scheduled *)
C7_Witness ==
    /\ failedDials = 2
    /\ reconnectAttemptsCount = 3
    /\ ReconnectTimers # {}

(* C8: while the current handle is Open, and whenever the latest event is
   Opened, reconnectAttempts = 0 and isReconnecting = false. *)
C8_OpenResetsStatus ==
    /\ (ws # 0 /\ handles[ws].state = "Open")
          => (reconnectAttemptsCount = 0 /\ ~isCurrentlyReconnecting)
    /\ (AllEvents # << >> /\ AllEvents[Len(AllEvents)].tag = "open")
          => (reconnectAttemptsCount = 0 /\ ~isCurrentlyReconnecting)

(* a reconnected handle is Open after an attempt that had failed before *)
C8_Witness ==
    /\ ws >= 2
    /\ handles[ws].state = "Open"
    /\ dials >= 2

(* C9: the payloads ever offered to the message queue are the payloads of
   the message events ever offered to the event queue, one for one and in
   the same order, and each message is offered right before its event. *)
C9_MessagesMatchEvents ==
    LET M == AllMessages
        E == EventsTagged(AllEvents, "message")
    IN /\ Len(M) = Len(E)
       /\ \A i \in 1..Len(M) :
             i <= Len(E) => /\ M[i].data = E[i].data
                            /\ M[i].r = E[i].r
                            /\ M[i].n + 1 = E[i].n

(* a message of the first session and a different one of a reconnected session *)
C9_Witness ==
    /\ Len(AllMessages) = 2
    /\ AllMessages[1].h = 1
    /\ AllMessages[2].h >= 2
    /\ AllMessages[1].data # AllMessages[2].data

(* offer order, notification order and session order agree along seq *)
InRaiseOrder(seq) ==
    \A i, j \in 1..Len(seq) :
        i < j => /\ seq[i].n < seq[j].n
                 /\ (seq[i].r > 0 /\ seq[j].r > 0) => seq[i].r <= seq[j].r
                 /\ (seq[i].h > 0 /\ seq[j].h > 0) => seq[i].h <= seq[j].h

(* C10: what the consumer has taken from each stream, followed by what is
   still queued, is in the order in which the transport raised it, with
   everything of an earlier session before everything of a later one. *)
C10_ConsumerSeesRaiseOrder ==
    /\ InRaiseOrder(evtSeen \o eventQueue)
    /\ InRaiseOrder(msgSeen \o messageQueue)
    /\ \A i, j \in 1..Len(msgSeen) : i < j => msgSeen[i].r < msgSeen[j].r

(* the consumer has taken events and messages of two sessions *)
C10_Witness ==
    /\ \E i, j \in 1..Len(evtSeen) : evtSeen[i].h = 1 /\ evtSeen[j].h = 2
    /\ Len(msgSeen) = 2
    /\ msgSeen[1].h = 1
    /\ msgSeen[2].h = 2

(* ---- C11 ---- *)
TransportTags == {"open", "close", "error", "message"}

(* the events that the k-th transport notification put on the event queue *)
EventsOfNotification(k) ==
    SelectSeq(AllEvents, LAMBDA e : e.r = k /\ e.tag \in TransportTags)

(* C11: on a constructed client every transport notification, of the first
   handle and of every later one, has exactly one event on the event channel, and it is the
   event of its kind (open, close with the notification's code, error,
   message with the notification's data) for its handle. *)
C11_OneEventPerNotification ==
    \A k \in 1..Len(transportLog) :
        LET evs == EventsOfNotification(k)
        IN pc = "constructed" =>
           /\ Len(evs) = 1
           /\ evs[1].tag = transportLog[k].kind
           /\ evs[1].h = transportLog[k].h
           /\ evs[1].code = transportLog[k].code
           /\ evs[1].data = transportLog[k].data

(* ---- C12 ---- *)
(* C12: a send fails with WebSocketSendError whenever the current handle was
   not Open when it was called or the transport raised a fault for its
   payload, and a failed send has handed nothing to the transport and has
   left nothing waiting to be handed over. *)
C12_SendFailsUnlessDelivered ==
    \A i \in 1..Len(sendLog) :
        LET e == sendLog[i]
        IN /\ (e.state # "Open" \/ e.fault) => e.result = "WebSocketSendError"
           /\ e.result = "WebSocketSendError" => (e.handed = 0 /\ ~e.pending)

(* ---- C13 ---- *)
(* C13: a close() call fails with WebSocketError exactly when the transport's
   close throws; otherwise it succeeds and has requested the close of the
   current handle (Connecting or Open becomes Closing, no other handle is
   touched).  On a handle that is already Closed it changes no handle, and
   no close() call puts anything on either queue. *)
C13_CloseResult ==
    [][\A fault \in BOOLEAN :
          Close(fault) =>
              /\ closeResult' = (IF fault THEN "WebSocketError" ELSE "ok")
              /\ ~fault =>
                    handles' = [handles EXCEPT ![ws].state =
                                   IF @ \in {"Connecting", "Open"} THEN "Closing" ELSE @]
              /\ (~fault /\ readyState = "Closed") => handles' = handles
              /\ eventQueue' = eventQueue
              /\ messageQueue' = messageQueue]_vars

(* close() has succeeded on a client whose only handle had already been
   closed by the peer: the reconnection it had started is cancelled *)
C13_Witness ==
    /\ closeCalled
    /\ closeResult = "ok"
    /\ ~scopeClosed
    /\ Len(handles) = 1
    /\ readyState = "Closed"
    /\ isCurrentlyReconnecting
    /\ ReconnectTimers = {}

(* ---- C14 ---- *)
(* C14: with reconnection disabled the event channel carries exactly the
   notifications of the one handle, in order and with their values (so an
   opened session that receives messages and is closed by the peer yields
   open, the messages in order, close with the peer's code); there is no
   reconnecting or reconnect_failed event, no timer besides the one of the
   wait for the first open, no second handle, and isCurrentlyReconnecting
   and reconnectAttemptsCount keep their initial values. *)
C14_DisabledNeverReconnects ==
    ~reconnectionOptions.enabled =>
        /\ Len(AllEvents) = Len(transportLog)
        /\ \A k \in 1..Len(AllEvents) :
              /\ AllEvents[k].tag = transportLog[k].kind
              /\ AllEvents[k].code = transportLog[k].code
              /\ AllEvents[k].data = transportLog[k].data
        /\ [k \in 1..Len(AllMessages) |-> AllMessages[k].data]
              = [k \in 1..Len(EventsTagged(AllEvents, "message")) |->
                    EventsTagged(AllEvents, "message")[k].data]
        /\ EventsTagged(AllEvents, "reconnecting") = << >>
        /\ EventsTagged(AllEvents, "reconnect_failed") = << >>
        /\ timerSeq <= 1
        /\ \A tm \in timers : tm.kind = "initial"
        /\ Len(handles) <= 1
        /\ ~isCurrentlyReconnecting
        /\ reconnectAttemptsCount = 0

(* reconnection disabled: open, two messages, then the peer closes with 1006 *)
C14_Witness ==
    /\ ~reconnectionOptions.enabled
    /\ [k \in 1..Len(AllEvents) |-> AllEvents[k].tag]
          = << "open", "message", "message", "close" >>
    /\ AllEvents[2].data = "ping"
    /\ AllEvents[3].data = "pong"
    /\ AllEvents[4].code = 1006
    /\ ~closeCalled
    /\ ~scopeClosed

(* ---- C15 ---- *)
ReconnectFailedEmitted == EventsTagged(AllEvents, "reconnect_failed") # << >>

(* what the claim says stays as it is once the controller has terminated *)
TerminatedFrozen ==
    /\ Len(EventsTagged(AllEvents, "open"))' = Len(EventsTagged(AllEvents, "open"))
    /\ Len(handles') = Len(handles)
    /\ reconnectAttemptsCount' = reconnectAttemptsCount
    /\ isCurrentlyReconnecting' = isCurrentlyReconnecting

(* C15 as stated: once reconnect_failed has been emitted or close() has been
   called, no open event is emitted, no handle is created, and
   reconnectAttemptsCount and isCurrentlyReconnecting do not change. *)
C15_TerminatedIsAbsorbing ==
    [][(pc = "constructed" /\ (ReconnectFailedEmitted \/ closeCalled))
          => TerminatedFrozen]_vars

(* C15, amended: the same once reconnect_failed has been emitted or a
   close() call has completed without a fault. *)
C15_TerminatedAfterSuccessfulClose ==
    [][(pc = "constructed" /\ (ReconnectFailedEmitted \/ closeSucceeded))
          => TerminatedFrozen]_vars

(* close() has succeeded while a reconnection dial was in flight: the new
   handle is Closing and its connect timeout is still pending *)
C15_Witness ==
    /\ closeSucceeded
    /\ ws >= 2
    /\ handles[ws].state = "Closing"
    /\ ConnectTimerOf(Pack(0), ws) # {}
    /\ isCurrentlyReconnecting

(* ---- C16 ---- *)
(* C16: the step that completes makeWebSocketClient leaves the first handle
   Open with exactly one event offered, the open event of that handle; and
   on every constructed client the first event ever offered is that open
   event, so no close, error or reconnecting event precedes it. *)
C16_ConstructedMeansOpened ==
    [][/\ (pc # "constructed" /\ pc' = "constructed") =>
             /\ ws' = 1
             /\ readyState' = "Open"
             /\ Len(AllEvents') = 1
       /\ pc' = "constructed" =>
             /\ AllEvents' # << >>
             /\ AllEvents'[1].tag = "open"
             /\ AllEvents'[1].h = 1]_vars

(* construction has just completed *)
C16_Witness ==
    /\ pc = "constructed"
    /\ readyState = "Open"
    /\ Len(AllEvents) = 1
    /\ AllEvents[1].tag = "open"
    /\ Len(transportLog) = 1

(* ---- C17 ---- *)
(* C17: once a close() call has completed without a fault, readyState is
   Closing or Closed in every later state: the current handle never opens
   and no reconnection installs a new one. *)
C17_ClosedStaysClosed ==
    closeSucceeded => readyState \in {"Closing", "Closed"}

(* close() succeeded on an open session that had been reconnected, and the
   closed notification has arrived since *)
C17_Witness ==
    /\ closeSucceeded
    /\ ws >= 2
    /\ handles[ws].opened
    /\ readyState = "Closed"
    /\ EventsSinceLast("open") # << >>

(* ---- C18, C19, C20 ---- *)
(* initialDelay * backoffMultiplier^(n-1), capped at maxDelay *)
CappedBackoff(opts, n) ==
    LET raw == opts.initialDelay * Pow(opts.backoffMultiplier, n - 1)
    IN IF raw <= opts.maxDelay THEN raw ELSE opts.maxDelay

(* C18: without jitter the delay computed for attempt n is
   min(initialDelay * backoffMultiplier^(n-1), maxDelay), and with
   backoffMultiplier >= 1 no earlier attempt has a longer delay. *)
C18_DelayWithoutJitter ==
    (delayOut.n >= 1 /\ ~reconnectionOptions.jitter) =>
        /\ delayOut.delay = CappedBackoff(reconnectionOptions, delayOut.n)
        /\ reconnectionOptions.backoffMultiplier >= 1 =>
              \A m \in 1..delayOut.n :
                  calculateReconnectionDelay(m, reconnectionOptions, 0) <= delayOut.delay

(* without jitter, the first attempt whose delay is cut down to maxDelay *)
C18_Witness ==
    /\ ~reconnectionOptions.jitter
    /\ delayOut.n >= 2
    /\ delayOut.delay = reconnectionOptions.maxDelay
    /\ reconnectionOptions.initialDelay
          * Pow(reconnectionOptions.backoffMultiplier, delayOut.n - 1)
          > reconnectionOptions.maxDelay
    /\ reconnectionOptions.initialDelay
          * Pow(reconnectionOptions.backoffMultiplier, delayOut.n - 2)
          < reconnectionOptions.maxDelay

(* C19: with jitter the delay computed for attempt n lies between 0.75 d and
   1.25 d, d being min(initialDelay * backoffMultiplier^(n-1), maxDelay),
   and is not negative. *)
C19_JitterWithinQuarter ==
    (delayOut.n >= 1 /\ reconnectionOptions.jitter) =>
        LET d == CappedBackoff(reconnectionOptions, delayOut.n)
        IN /\ 4 * delayOut.delay >= 3 * d
           /\ 4 * delayOut.delay <= 5 * d
           /\ delayOut.delay >= 0

(* with jitter, Math.random() = 0: the delay is three quarters of d *)
C19_Witness ==
    /\ reconnectionOptions.jitter
    /\ delayOut.n >= 2
    /\ delayOut.delay > 0
    /\ 4 * delayOut.delay = 3 * CappedBackoff(reconnectionOptions, delayOut.n)

(* C20: the delay computed for an attempt never exceeds maxDelay, whatever
   the attempt number and the policy, jitter included. *)
C20_DelayAtMostMaxDelay ==
    delayOut.n >= 1 => delayOut.delay <= reconnectionOptions.maxDelay

(* ---- C21 ---- *)
IsPrefix(a, b) == Len(a) <= Len(b) /\ SubSeq(b, 1, Len(a)) = a

(* C21: every offer is kept until the consumer takes it: what has been taken
   followed by what is queued only ever grows at its end, holds every offer
   made so far exactly once and in offer order, whether or not anybody
   consumes and whether or not the client's scope has exited. *)
C21_QueuesKeepEveryOffer ==
    [][/\ IsPrefix(AllEvents, AllEvents')
       /\ IsPrefix(AllMessages, AllMessages')
       /\ Len(AllEvents') + Len(AllMessages') = offers'
       /\ {AllEvents'[i].n : i \in 1..Len(AllEvents')}
             \cup {AllMessages'[i].n : i \in 1..Len(AllMessages')} = 1..offers'
       /\ \A i, j \in 1..Len(AllEvents') : i < j => AllEvents'[i].n < AllEvents'[j].n
       /\ \A i, j \in 1..Len(AllMessages') : i < j => AllMessages'[i].n < AllMessages'[j].n]_vars

(* the scope has exited, its finalizer has closed the socket, and the
   consumer has since taken every event, the close event that followed the
   exit included, and both messages *)
C21_Witness ==
    /\ scopeClosed
    /\ ~closeCalled
    /\ EventsTagged(AllEvents, "reconnecting") = << >>
    /\ eventQueue = << >>
    /\ Len(evtSeen) = 4
    /\ evtSeen[4].tag = "close"
    /\ Len(msgSeen) = 2

(* ---- C22 ---- *)
(* C22: a connection.send called while the connection's transport is not
   Open fails with WebSocketServerError, and a payload is handed to the
   transport only by a send that found it Open and succeeded. *)
C22_ConnectionSendNeedsOpen ==
    \A i \in 1..Len(connSendLog) :
        LET e == connSendLog[i]
        IN /\ e.state # "Open" => e.result = "WebSocketServerError"
           /\ e.handed => (e.state = "Open" /\ e.result = "ok")
           /\ e.result = "WebSocketServerError" => ~e.handed

(* a send on a connection after connection.close() on it *)
C22_Witness ==
    \E i \in 1..Len(connSendLog) :
        /\ connSendLog[i].state = "Closing"
        /\ connSendLog[i].result = "WebSocketServerError"

(* ---- C23 ---- *)
AllConnections == connSeen \o connectionQueue
AllServerMessages == serverMsgSeen \o serverMessageQueue

(* C23: the connections taken from server.connections followed by those
   still queued are the accepted transports, each once, in accept order,
   each with the id its connection was given. *)
C23_EveryConnectionOnce ==
    /\ Len(AllConnections) = Len(conns)
    /\ \A i \in 1..Len(AllConnections) :
          /\ AllConnections[i].ws = i
          /\ AllConnections[i].id = conns[i].id

(* two clients have connected and the consumer has taken both connections *)
C23_Witness ==
    /\ Len(conns) = 2
    /\ Len(connSeen) = 2
    /\ connSeen[1].id = connSeen[2].id

(* ---- C24 ---- *)
(* C24: every item of server.messages has the connectionId of the connection
   of the transport that delivered it; that connection was offered before
   the item was; and the items of one transport are in arrival order. *)
C24_MessagesBelongToConnections ==
    /\ \A i \in 1..Len(AllServerMessages) :
          LET m == AllServerMessages[i]
          IN /\ m.connectionId = conns[m.ws].id
             /\ arrivals[m.k] = [ws |-> m.ws, data |-> m.data]
             /\ \E c \in 1..Len(AllConnections) :
                   AllConnections[c].ws = m.ws /\ AllConnections[c].n < m.n
    /\ \A i, j \in 1..Len(AllServerMessages) :
          (i < j /\ AllServerMessages[i].ws = AllServerMessages[j].ws)
             => AllServerMessages[i].k < AllServerMessages[j].k

(* the consumer has taken two messages of one connection and a second
   connection with another id exists *)
C24_Witness ==
    /\ Len(serverMsgSeen) = 2
    /\ serverMsgSeen[1].ws = 1
    /\ serverMsgSeen[2].ws = 1
    /\ serverMsgSeen[1].data # serverMsgSeen[2].data
    /\ Len(conns) = 2
    /\ conns[1].id # conns[2].id

(* ---- C25 ---- *)
(* the handles of reconnection dials that have neither opened nor failed yet *)
DialsInFlight ==
    {h \in 1..Len(handles) :
        handles[h].wiring = "reconnect" /\ handles[h].state = "Connecting"}

(* the step is a closed notification of the transport *)
ClosedNotified ==
    /\ Len(transportLog') = Len(transportLog) + 1
    /\ transportLog'[Len(transportLog')].kind = "close"

(* C25: there is never more than one reconnection timer pending nor more
   than one reconnection dial in flight, and a closed notification that
   arrives while isCurrentlyReconnecting is true creates no timer, offers no
   reconnecting event and leaves reconnectAttemptsCount as it is. *)
C25_OneReconnectionAtATime ==
    [][/\ Cardinality(ReconnectTimers') <= 1
       /\ Cardinality(DialsInFlight') <= 1
       /\ (ClosedNotified /\ isCurrentlyReconnecting) =>
             /\ timerSeq' = timerSeq
             /\ ReconnectTimers' = ReconnectTimers
             /\ Len(EventsTagged(AllEvents', "reconnecting"))
                   = Len(EventsTagged(AllEvents, "reconnecting"))
             /\ reconnectAttemptsCount' = reconnectAttemptsCount]_vars

(* a reconnection dial has been closed while isCurrentlyReconnecting was
   true: its closed notification has started nothing *)
C25_Witness ==
    /\ ws >= 2
    /\ ~handles[ws].opened
    /\ handles[ws].state = "Closed"
    /\ transportLog[Len(transportLog)] = [kind |-> "close", h |-> ws, code |-> 1006, data |-> ""]
    /\ isCurrentlyReconnecting
    /\ ~manualClose
    /\ ReconnectTimers = {}

(* ---- C26 ---- *)
(* C26: when the timer of a dial fires and the dialled handle has not
   opened, the dial has failed and the handle is closed (so no open of it
   can follow); when the handle has opened, the timer changes no handle.
   The first conjunct is the wait of makeWebSocketClient, the second the
   connect timeout of performReconnection. *)
C26_TimedOutDialIsClosed ==
    [][/\ InitialTimeoutFires =>
             IF handles[1].state = "Open"
             THEN handles' = handles
             ELSE pc' = "failed" /\ handles'[1].state \in {"Closing", "Closed"}
       /\ ConnectTimeoutFires =>
             \A tm \in timers \ timers' :
                 IF handles[tm.h].state = "Open"
                 THEN handles' = handles
                 ELSE handles'[tm.h].state \in {"Closing", "Closed"}]_vars

(* ---- C27 ---- *)
Superseded == {h \in 1..Len(handles) : h # ws}

(* C27 as stated: the callbacks of a superseded handle have been detached,
   and no notification comes from a superseded handle. *)
C27_SupersededIsDetached ==
    [][/\ \A h \in Superseded' : handles'[h].wiring = "detached"
       /\ Len(transportLog') > Len(transportLog) =>
             transportLog'[Len(transportLog')].h = ws]_vars

(* C27, amended: a handle is superseded only once it is Closed, so every
   notification that the transport raises is one of the current handle and
   none of a superseded handle reaches the queues, the counters or
   attemptReconnection. *)
C27_SupersededIsClosed ==
    [][/\ \A h \in Superseded' : handles'[h].state = "Closed"
       /\ Len(transportLog') > Len(transportLog) =>
             transportLog'[Len(transportLog')].h = ws]_vars

(* the second session is open and has received a message; the first
   handle, superseded, is Closed and still wired as it was *)
C27_Witness ==
    /\ ws = 2
    /\ handles[1].state = "Closed"
    /\ handles[1].wiring = "setup"
    /\ handles[2].state = "Open"
    /\ \E i \in 1..Len(AllMessages) : AllMessages[i].h = 2

(* ---- C28 ---- *)
ReconnectingSince == EventsTagged(EventsSinceLast("open"), "reconnecting")

(* C28: the reconnecting events offered since the last open event (or since
   construction) carry 1, 2, 3, ... in this order; and a step that offers a
   reconnecting event offers one, carrying reconnectAttemptsCount as it is
   after its increment by one, creates exactly one timer, the reconnection
   timer that reconnectTimeoutId names, and leaves isCurrentlyReconnecting
   true. *)
C28_ReconnectingCountsUp ==
    [][/\ \A i \in 1..Len(ReconnectingSince') : ReconnectingSince'[i].attempt = i
       /\ Len(EventsTagged(AllEvents', "reconnecting"))
             # Len(EventsTagged(AllEvents, "reconnecting")) =>
             /\ Len(EventsTagged(AllEvents', "reconnecting"))
                   = Len(EventsTagged(AllEvents, "reconnecting")) + 1
             /\ reconnectAttemptsCount' = reconnectAttemptsCount + 1
             /\ AllEvents'[Len(AllEvents')].tag = "reconnecting"
             /\ AllEvents'[Len(AllEvents')].attempt = reconnectAttemptsCount'
             /\ timerSeq' = timerSeq + 1
             /\ reconnectTimeoutId' = timerSeq'
             /\ {tm \in timers' : tm.id > timerSeq}
                   = {tm \in ReconnectTimers' : tm.id = timerSeq'}
             /\ Cardinality({tm \in timers' : tm.id > timerSeq}) = 1
             /\ isCurrentlyReconnecting']_vars

(* the second outage of a client: after the second open event the session
   closed and two reconnection attempts have been announced *)
C28_Witness ==
    /\ Len(EventsTagged(AllEvents, "open")) = 2
    /\ Len(ReconnectingSince) = 2
    /\ ReconnectingSince[2].attempt = 2
    /\ Len(EventsTagged(AllEvents, "reconnecting")) = 3

(* ---- C29 ---- *)
(* the reconnection dials whose handle has neither opened nor been closed *)
DialsUnsettled ==
    {h \in 1..Len(handles) :
        handles[h].wiring = "reconnect" /\ ~handles[h].opened /\ handles[h].state # "Closed"}

(* C29: on a constructed client isReconnecting is true exactly when a
   reconnection timer is pending or a reconnection dial is in flight; so it
   is false once close() has been called and nothing is pending any more. *)
C29_IsReconnectingMeansPending ==
    pc = "constructed" =>
        (isCurrentlyReconnecting <=> (ReconnectTimers # {} \/ DialsUnsettled # {}))

(* ---- C30 ---- *)
(* C30: a send acts on the handle that is current when it is called: a
   payload that reaches a transport reaches that handle, and a send of a
   string or ArrayBuffer that finds it Open, with no fault of the transport,
   succeeds; after a reconnection this is the new handle.  readyState is the state of the
   current handle. *)
C30_CallsActOnCurrentSession ==
    /\ \A i \in 1..Len(sendLog) :
          LET e == sendLog[i]
          IN /\ e.handed # 0 => e.handed = e.at
             /\ (~e.blob /\ e.state = "Open" /\ ~e.fault) =>
                   (e.result = "ok" /\ e.handed = e.at)
    /\ ws # 0 => readyState = handles[ws].state

(* ---- C31 ---- *)
(* C31: with maxAttempts = 0 no reconnect_failed event is ever offered, and
   every run of performReconnection in which new WebSocket throws leaves
   the next attempt scheduled: one more reconnecting event, carrying the
   incremented count, and its timer pending. *)
C31_UnlimitedNeverGivesUp ==
    [][reconnectionOptions.enabled /\ reconnectionOptions.maxAttempts = 0 =>
          /\ EventsTagged(AllEvents', "reconnect_failed") = << >>
          /\ (\E rnd \in RandomSamples(reconnectionOptions) : ReconnectTimerFires(TRUE, rnd)) =>
                /\ Cardinality(ReconnectTimers') = 1
                /\ \A tm \in ReconnectTimers' : tm.id = timerSeq' /\ tm.id > timerSeq
                /\ isCurrentlyReconnecting'
                /\ reconnectAttemptsCount' = reconnectAttemptsCount + 1
                /\ Len(AllEvents') = Len(AllEvents) + 1
                /\ AllEvents'[Len(AllEvents')].tag = "reconnecting"
                /\ AllEvents'[Len(AllEvents')].attempt = reconnectAttemptsCount']_vars

(* unlimited attempts: every dial so far has thrown and the next attempt,
   one more than the dials made, is scheduled *)
C31_Witness ==
    /\ reconnectionOptions.maxAttempts = 0
    /\ reconnectionOptions.enabled
    /\ pc = "constructed"
    /\ dials = MaxDials
    /\ Len(handles) = 1
    /\ reconnectAttemptsCount = MaxDials + 1
    /\ ReconnectTimers # {}

(* ---- C32 ---- *)
(* C32: with maxAttempts = N > 0, reconnectAttemptsCount is within 0..N in
   every state and no reconnecting event carries more than N. *)
C32_AttemptsWithinLimit ==
    reconnectionOptions.maxAttempts > 0 =>
        /\ reconnectAttemptsCount >= 0
        /\ reconnectAttemptsCount <= reconnectionOptions.maxAttempts
        /\ \A i \in 1..Len(AllEvents) :
              AllEvents[i].tag = "reconnecting" =>
                  (AllEvents[i].attempt >= 1
                   /\ AllEvents[i].attempt <= reconnectionOptions.maxAttempts)

(* the limit of two attempts has been used up and reconnect_failed offered *)
C32_Witness ==
    /\ reconnectionOptions.enabled
    /\ reconnectionOptions.maxAttempts = 2
    /\ reconnectAttemptsCount = 2
    /\ Len(EventsTagged(EventsSinceLast("open"), "reconnecting")) = 2
    /\ EventsTagged(AllEvents, "reconnect_failed") # << >>

(* ---- C33 ---- *)
(* C33: at most one handle is Connecting or Open, and every handle but the
   newest is Closed: a handle is created only once its predecessor has
   reported closed. *)
C33_OneLiveHandle ==
    /\ Cardinality(LiveHandles) <= 1
    /\ \A h \in 1..Len(handles) : h < Len(handles) => handles[h].state = "Closed"

(* the third handle of a client is Open, the two before it are Closed *)
C33_Witness ==
    /\ Len(handles) = 3
    /\ handles[1].state = "Closed"
    /\ handles[2].state = "Closed"
    /\ handles[3].state = "Open"
    /\ LiveHandles = {3}

(* ---- C34 ---- *)
(* C34: a reconnecting event caused by a closed notification comes right
   after the close event of that notification, which is the offer just
   before it; and when a handle that had opened is closed while
   reconnection is enabled and nothing has closed the client, the step
   offers exactly the close event, with the notification's code, and then
   reconnecting with attempt 1. *)
C34_ClosedThenReconnecting ==
    [][/\ \A i \in 1..Len(AllEvents') :
             (AllEvents'[i].tag = "reconnecting" /\ AllEvents'[i].r > 0) =>
                 /\ i > 1
                 /\ AllEvents'[i - 1].tag = "close"
                 /\ AllEvents'[i - 1].r = AllEvents'[i].r
                 /\ AllEvents'[i - 1].n + 1 = AllEvents'[i].n
       /\ (/\ ClosedNotified
           /\ handles[transportLog'[Len(transportLog')].h].opened
           /\ reconnectionOptions.enabled
           /\ ~manualClose) =>
             LET k == Len(AllEvents')
                 note == transportLog'[Len(transportLog')]
             IN /\ k = Len(AllEvents) + 2
                /\ AllEvents'[k - 1].tag = "close"
                /\ AllEvents'[k - 1].code = note.code
                /\ AllEvents'[k - 1].h = note.h
                /\ AllEvents'[k].tag = "reconnecting"
                /\ AllEvents'[k].attempt = 1]_vars

(* the reconnected session has just been closed by the peer: close, then
   reconnecting with attempt 1, are the last two events *)
C34_Witness ==
    /\ Len(handles) = 2
    /\ handles[2].opened
    /\ handles[2].state = "Closed"
    /\ Len(AllEvents) >= 2
    /\ AllEvents[Len(AllEvents)].tag = "reconnecting"
    /\ AllEvents[Len(AllEvents)].attempt = 1
    /\ AllEvents[Len(AllEvents) - 1].tag = "close"
    /\ AllEvents[Len(AllEvents) - 1].h = 2

(* ---- C35 ---- *)
(* C35: a close() whose transport close throws fails with WebSocketError,
   leaves manualClose set and the reconnection timer cancelled, and changes
   no handle; and as long as every close() so far has failed, manualClose
   stays set, no reconnection timer is pending, and no step creates a
   handle or offers a reconnecting event. *)
C35_FailedCloseIsNotRolledBack ==
    [][/\ Close(TRUE) =>
             /\ closeResult' = "WebSocketError"
             /\ manualClose'
             /\ ReconnectTimers' = {}
             /\ reconnectTimeoutId' = 0
             /\ handles' = handles
       /\ (closeCalled /\ ~closeSucceeded) =>
             /\ manualClose
             /\ manualClose'
             /\ ReconnectTimers = {}
             /\ ReconnectTimers' = {}
             /\ Len(handles') = Len(handles)
             /\ Len(EventsTagged(AllEvents', "reconnecting"))
                   = Len(EventsTagged(AllEvents, "reconnecting"))]_vars

(* close() failed on the open session; the peer has closed it since and
   no reconnection has started *)
C35_Witness ==
    /\ closeCalled
    /\ ~closeSucceeded
    /\ closeResult = "WebSocketError"
    /\ ~scopeClosed
    /\ reconnectionOptions.enabled
    /\ handles[ws].opened
    /\ handles[ws].state = "Closed"
    /\ AllEvents[Len(AllEvents)].tag = "close"
    /\ ~isCurrentlyReconnecting

(* ---- C36 ---- *)
(* close() has been called, the scope has exited, or reconnect_failed has
   been emitted *)
ControllerEnded == closeCalled \/ scopeClosed \/ ReconnectFailedEmitted

(* C36: no step shuts down the message queue or the event queue, so neither
   stream ends; and once close() has been called, the scope has exited or
   reconnect_failed has been emitted, a step hands the consumer of a drained
   channel nothing, and what has been offered to a channel stays offered. *)
C36_StreamsNeverEnd ==
    [][/\ shutdownQueues = {}
       /\ shutdownQueues' = {}
       /\ ControllerEnded =>
             /\ IsPrefix(AllEvents, AllEvents')
             /\ IsPrefix(AllMessages, AllMessages')
             /\ eventQueue = << >> => evtSeen' = evtSeen
             /\ messageQueue = << >> => msgSeen' = msgSeen]_vars

(* reconnect_failed was emitted and the scope has exited; the consumer has
   taken every event and every message, and nothing is left to happen *)
C36_Witness ==
    /\ ReconnectFailedEmitted
    /\ scopeClosed
    /\ Quiescent
    /\ shutdownQueues = {}
    /\ eventQueue = << >>
    /\ messageQueue = << >>
    /\ evtSeen # << >>
    /\ msgSeen # << >>
    /\ evtSeen[Len(evtSeen)].tag = "reconnect_failed"

====
